---- MODULE Spec2Model ----
(***************************************************************************)
(* RA.Aid: the stage orchestrator (ra_aid/__main__.py: main,               *)
(* run_research_subtasks, run_implementation_stage), its retry executor    *)
(* (run_agent_with_retry) and the interactive process capture engine       *)
(* (ra_aid/proc/interactive.py: run_interactive_command).                  *)
(*                                                                         *)
(* A run of main is one behaviour of Spec.  What an agent session does     *)
(* (which tools the LLM calls, whether the provider call fails) is the     *)
(* environment: every tool of the session's tool set may be called while   *)
(* the session streams, and every stream may end normally, with one of the *)
(* provider errors, with the completion signal or with another error.      *)
(***************************************************************************)
EXTENDS Integers, Sequences, FiniteSets, TLC

(***************************************************************************)
(* Bounds of the model (not program constants).                            *)
(***************************************************************************)
MaxTasks == 2        \* longest task list a Planning session emits
MaxSubtasks == 2     \* longest research-subtask list a Research session emits
MaxFaults == 2       \* most transient errors within one session, in a full run
MaxLen == 4          \* longest byte sequence the sanitizer is given, all of them tried

(***************************************************************************)
(* The values tools may write into the store.                              *)
(***************************************************************************)
Facts == {"f1"}
Snippets == {"k1"}
Files == {"a.py"}
Notes == {"n1"}
Plans == {"p1"}
TaskNames == <<"t1", "t2">>
SubtaskNames == <<"s1", "s2">>
BaseTasks == {"m1"}

(***************************************************************************)
(* Program constants.                                                      *)
(***************************************************************************)
max_retries == 20    \* __main__.py:199
base_delay == 1      \* __main__.py:200

\* The module-level checkpointers of __main__.py:127-129.
research_memory == 1
planning_memory == 2
implementation_memory == 3

VARIABLES
    environ,         \* os.environ: the variables validate_environment reads, "" when unset
    args,            \* the command line, parsed: message, research_only, provider, model, ...
    expert_enabled,  \* validate_environment's first result
    faults,          \* environment: most transient errors the provider raises in one session
    store,           \* _global_memory
    pc,              \* where main is: "argv", "parsed", "validated", "start", "run", "ret",
                     \* "done", "exited", "aborted", "rejected"
    stage,           \* the stage main is in
    idx,             \* the loop index of run_research_subtasks / run_implementation_stage
    cur,             \* the agent session run_agent_with_retry is running
    frame,           \* run_implementation_stage's arguments, evaluated at the call
    attempt,         \* run_agent_with_retry: the loop variable
    streams,         \* agent.stream calls made by the current run_agent_with_retry
    failures,        \* transient errors caught by the current run_agent_with_retry
    sleeps,          \* delays passed to time.sleep by the current run_agent_with_retry
    raised,          \* the exception that left run_agent_with_retry, if any
    last_error,      \* the error agent.stream raised when run_agent_with_retry gave up
    exit_code,       \* the process exit status, -1 while the process runs
    started,         \* the sessions constructed so far, in order
    ended,           \* how many of them have terminated
    memsavers,       \* MemorySaver objects created so far
    files,           \* the temporary directory: the files in it
    calls,           \* the invocations of run_interactive_command
    tool_call        \* the command-style tool being executed, if any

capture_vars == <<files, calls, tool_call>>

main_vars == <<environ, args, expert_enabled, faults, store, pc, stage, idx, cur, frame, attempt, streams,
               failures, sleeps, raised, last_error, exit_code, started, ended, memsavers>>

vars == <<capture_vars, environ, args, expert_enabled, faults, store, pc, stage, idx, cur, frame, attempt, streams, failures,
          sleeps, raised, last_error, exit_code, started, ended, memsavers>>

retry_vars == <<attempt, streams, failures, sleeps>>

(***************************************************************************)
(* Exceptions.                                                             *)
(***************************************************************************)
\* What agent.stream may raise: the four provider errors of __main__.py:29,
\* the completion signal of ra_aid.exceptions, and any other exception.
Errors == {"InternalServerError", "APITimeoutError", "RateLimitError",
           "APIError", "TaskCompletedException", "OtherError"}

NoException == [type |-> "none", embeds |-> "none"]

\* Any exception but the completion signal is caught (an `except Exception`).
IsTransient_any(e) == e # "TaskCompletedException"

\* The except clause of run_agent_with_retry (__main__.py:210).
IsTransient(e) ==
    e \in {"InternalServerError", "APITimeoutError", "RateLimitError", "APIError"}

\* A linear backoff.
Delay_linear(a) == base_delay * (a + 1)

\* delay = base_delay * (2 ** attempt)   (__main__.py:214)
Delay(a) == base_delay * (2 ^ a)

\* The test is off by one: no attempt is the last.
IsLastAttempt_late(a) == a = max_retries

\* The loop retries for as long as the provider fails.
IsLastAttempt_never(a) == FALSE

\* if attempt == max_retries - 1   (__main__.py:211)
IsLastAttempt(a) == a = max_retries - 1

\* RuntimeError(f"Max retries ({max_retries}) exceeded. Last error: {str(e)}")
MaxRetriesExceeded(e) == [type |-> "RuntimeError", embeds |-> e]

(***************************************************************************)
(* Tool sets (__main__.py:33-56, 131-185).                                 *)
(***************************************************************************)
COMMON_TOOLS ==
    {"emit_related_files", "emit_key_facts", "delete_key_facts",
     "emit_key_snippets", "delete_key_snippets", "read_file_tool",
     "fuzzy_find_project_files", "ripgrep_search"}

EXPERT_TOOLS == {"emit_expert_context", "ask_expert"}

RESEARCH_TOOLS ==
    {"list_directory_tree", "emit_research_subtask", "run_shell_command",
     "emit_research_notes"}

\* request_implementation is always offered.
get_research_tools_with_request(research_only, expert) ==
    RESEARCH_TOOLS \cup COMMON_TOOLS
        \cup (IF expert THEN EXPERT_TOOLS ELSE {})
        \cup {"request_implementation"}

get_research_tools(research_only, expert) ==
    RESEARCH_TOOLS \cup COMMON_TOOLS
        \cup (IF expert THEN EXPERT_TOOLS ELSE {})
        \cup (IF ~research_only THEN {"request_implementation"} ELSE {})

get_planning_tools(expert) ==
    {"list_directory_tree", "emit_plan", "emit_task", "emit_related_files",
     "emit_key_facts", "delete_key_facts", "emit_key_snippets",
     "delete_key_snippets", "read_file_tool", "fuzzy_find_project_files",
     "ripgrep_search", "search_online"}
        \cup (IF expert THEN {"ask_expert", "emit_expert_context"} ELSE {})

get_implementation_tools(expert) ==
    {"list_directory_tree", "run_shell_command", "run_programming_task",
     "run_test_command", "run_lint_command", "emit_related_files",
     "emit_key_facts", "delete_key_facts", "emit_key_snippets",
     "delete_key_snippets", "read_file_tool", "fuzzy_find_project_files",
     "ripgrep_search"}
        \cup (IF expert THEN {"ask_expert", "emit_expert_context"} ELSE {})

(***************************************************************************)
(* The memory store (ra_aid/tools/memory.py; its key schema is that of the *)
(* specification's section 6).                                             *)
(***************************************************************************)
NoConfig == [present |-> FALSE, research_only |-> FALSE]

EmptyStore ==
    [config |-> NoConfig,
     research_notes |-> {},
     key_facts |-> {},
     key_snippets |-> {},
     related_files |-> {},
     research_subtasks |-> <<>>,
     tasks |-> <<>>,
     plan |-> {},
     implementation_requested |-> {}]

\* _global_memory.get('config', {}).get('research_only', False)
config_research_only(s) ==
    IF s.config.present THEN s.config.research_only ELSE FALSE

\* get_memory_value(key): the value stored under key, rendered for a prompt.
get_memory_value(s, key) == s[key]

\* A copy of the related files: an object of its own.
get_related_files_copy(s) == [shared |-> FALSE, items |-> s.related_files]

\* get_related_files(): the store's collection of related files itself, the
\* object emit_related_files adds to (items: what it held when it was
\* handed out).
get_related_files(s) == [shared |-> TRUE, items |-> s.related_files]

\* What str.format renders of a collection of files when the prompt is
\* built: the contents the object has then.
str(obj, s) == IF obj.shared THEN s.related_files ELSE obj.items

\* A stage is requested when there are tasks for it.
is_stage_requested_tasks(s, stg) == Len(s.tasks) > 0

\* __main__.py:191-195
is_stage_requested(s, stg) ==
    IF stg = "implementation"
    THEN Cardinality(s.implementation_requested) > 0
    ELSE FALSE

\* The two tests are joined by `and`.
is_informational_query_and(s) ==
    config_research_only(s) /\ ~is_stage_requested(s, "implementation")

\* __main__.py:187-189
is_informational_query(s) ==
    config_research_only(s) \/ ~is_stage_requested(s, "implementation")

(***************************************************************************)
(* Prompts.  A prompt is a template with its placeholders filled in; the   *)
(* templates' texts are in ra_aid/prompts.py, and a template is modelled   *)
(* by the set of placeholders it renders.                                  *)
(***************************************************************************)
RESEARCH_PROMPT == {}
PLANNING_PROMPT ==
    {"research_notes", "key_facts", "key_snippets", "base_task", "related_files"}
IMPLEMENTATION_PROMPT ==
    {"plan", "key_facts", "key_snippets", "task", "related_files", "base_task"}

\* str.format: every placeholder of the template is replaced by its argument.
format(template, kwargs) == [k \in template |-> kwargs[k]]

\* __main__.py:428-432
research_prompt(base_task, research_only) ==
    [query |-> base_task, body |-> RESEARCH_PROMPT,
     only_if_asked |-> ~research_only]

\* __main__.py:283
subtask_prompt(subtask) == [subtask |-> subtask, body |-> RESEARCH_PROMPT]

\* __main__.py:450-456
planning_prompt(s, base_task) ==
    format(PLANNING_PROMPT,
           [research_notes |-> get_memory_value(s, "research_notes"),
            key_facts |-> get_memory_value(s, "key_facts"),
            key_snippets |-> get_memory_value(s, "key_snippets"),
            base_task |-> base_task,
            related_files |-> str(get_related_files(s), s)])

\* The whole task list is passed as the task.
task_prompt_all_tasks(s, base_task, plan, related_files, task) ==
    format(IMPLEMENTATION_PROMPT,
           [plan |-> plan,
            key_facts |-> get_memory_value(s, "key_facts"),
            key_snippets |-> get_memory_value(s, "key_snippets"),
            task |-> get_memory_value(s, "tasks"),
            related_files |-> str(related_files, s),
            base_task |-> base_task])

\* __main__.py:243-250
task_prompt(s, base_task, plan, related_files, task) ==
    format(IMPLEMENTATION_PROMPT,
           [plan |-> plan,
            key_facts |-> get_memory_value(s, "key_facts"),
            key_snippets |-> get_memory_value(s, "key_snippets"),
            task |-> task,
            related_files |-> str(related_files, s),
            base_task |-> base_task])

(***************************************************************************)
(* The world of the process capture engine (ra_aid/proc/interactive.py):   *)
(* the temporary directory and the invocations of run_interactive_command. *)
(* A file is [path, owner, content]; owner is the invocation that created  *)
(* it, directly or through the script it ran.  A path is the sequence of   *)
(* the pieces its name is put together from.                               *)
(***************************************************************************)
Calls == {"c1", "c2"}               \* the invocations, each made at most once
TempNames == {"x1", "x2"}           \* the random part of a temporary file's name
Cmds == {<<>>, <<"nosuch">>, <<"ls", "-l">>}
PATH == {"ls", "/bin/bash", "rg"}   \* the executables on the search path
ExitCodes == {0, 3, 130}             \* what the wrapped command may exit with
RawOutputs ==                       \* what the terminal may have shown
    {<<104, 105, 10>>, <<27, 91, 51, 49, 109, 104, 105, 7>>, <<255>>}

\* The bytes the sequences tried are made of: BEL, LF, ESC, '1', ';', '?',
\* '[', 'm', DEL.
ByteSamples == {7, 10, 27, 49, 59, 63, 91, 109, 127}

\* "\e[31mhi\e[0m\n": text wrapped in colour codes.
ColouredText == <<27, 91, 51, 49, 109, 104, 105, 27, 91, 48, 109, 10>>

CapturedSamples ==
    UNION {[1..n -> ByteSamples] : n \in 0..MaxLen} \cup {ColouredText}

NoPath == <<>>

NoCall ==
    [pc |-> "idle", cmd |-> <<>>, script_path |-> NoPath, spawned |-> FALSE,
     status |-> 0, ran |-> -1, captured |-> <<>>, output |-> <<>>,
     return_code |-> -1,
     exc |-> "none", k |-> 0]

NoTool ==
    [name |-> "none", pc |-> "idle", call |-> "none", total_files |-> 0,
     result |-> <<>>, exc |-> "none"]

CaptureIdle ==
    /\ tool_call = NoTool
    /\ files = {}
    /\ calls = [c \in Calls |-> NoCall]

(***************************************************************************)
(* Agent sessions.                                                         *)
(***************************************************************************)
create_react_agent(tools, checkpointer) ==
    [tools |-> tools, checkpointer |-> checkpointer]

NoSession == [agent |-> create_react_agent({}, 0), prompt |-> <<>>]
NoFrame ==
    [base_task |-> "none", plan |-> {},
     related_files |-> [shared |-> FALSE, items |-> {}]]

\* The subtask agents get the Research tool set as it is.
subtask_tools_unfiltered(s, expert) ==
    get_research_tools(config_research_only(s), expert)

subtask_tools_with_expert(s, expert) ==
    get_research_tools(config_research_only(s), TRUE) \ {"emit_research_subtask"}

\* The subtask agents' tools (__main__.py:265-269).
subtask_tools(s, expert) ==
    get_research_tools(config_research_only(s), expert) \ {"emit_research_subtask"}

(***************************************************************************)
(* The command line and the environment (parse_arguments and               *)
(* validate_environment of ra_aid/__main__.py).                            *)
(***************************************************************************)
Providers == {"anthropic", "openai", "openrouter", "openai-compatible"}

default_provider == "anthropic"
default_expert_provider == "openai"
default_model == "claude-3-5-sonnet-20241022"

\* The variables a provider needs.
ProviderVars(p) ==
    CASE p = "anthropic" -> {"ANTHROPIC_API_KEY"}
      [] p = "openai" -> {"OPENAI_API_KEY"}
      [] p = "openrouter" -> {"OPENROUTER_API_KEY"}
      [] p = "openai-compatible" -> {"OPENAI_API_KEY", "OPENAI_API_BASE"}

\* The variable the expert model reads in place of v.
ExpertVar(v) ==
    CASE v = "ANTHROPIC_API_KEY" -> "EXPERT_ANTHROPIC_API_KEY"
      [] v = "OPENAI_API_KEY" -> "EXPERT_OPENAI_API_KEY"
      [] v = "OPENROUTER_API_KEY" -> "EXPERT_OPENROUTER_API_KEY"
      [] v = "OPENAI_API_BASE" -> "EXPERT_OPENAI_API_BASE"

PrimaryVars == UNION {ProviderVars(p) : p \in Providers}
ExpertVars == {ExpertVar(v) : v \in PrimaryVars}
EnvVars == PrimaryVars \cup ExpertVars

\* The environments: a primary variable is unset or holds "p", an expert
\* variable is unset or holds "e".
Environs ==
    {env \in [EnvVars -> {"", "p", "e"}] :
        /\ \A v \in PrimaryVars : env[v] \in {"", "p"}
        /\ \A v \in ExpertVars : env[v] \in {"", "e"}}

\* The command lines: an option that is not given is "", the two provider
\* options hold their default when they are not given.
CommandLines ==
    [message : {"", "m1"}, research_only : BOOLEAN,
     provider : Providers, model : {"", "model"},
     expert_provider : Providers, expert_model : {"", "expert-model"}]

\* ra-aid -m message [--research-only]
CommandLine(message, research_only) ==
    [message |-> message, research_only |-> research_only,
     provider |-> default_provider, model |-> "",
     expert_provider |-> default_expert_provider, expert_model |-> ""]

\* parse_arguments calls parser.error
usage_error(a) ==
    \/ a.provider # "anthropic" /\ a.model = ""
    \/ a.expert_provider # "openai" /\ a.expert_model = ""

\* parse_arguments' result
parsed(a) ==
    IF a.provider = "anthropic" /\ a.model = ""
      THEN [a EXCEPT !.model = default_model]
      ELSE a

missing_none(a, env) == {}

\* validate_environment: the primary variables that are not set
missing(a, env) == {v \in ProviderVars(a.provider) : env[v] = ""}

fallback_any_provider(a, v, env) == env[v] # ""

\* validate_environment: fallback_available for the primary variable v
fallback_available(a, v, env) == a.expert_provider = a.provider /\ env[v] # ""

\* validate_environment: os.environ after the expert provider's branch
fallback(a, env) ==
    [x \in EnvVars |->
        IF \E v \in ProviderVars(a.expert_provider) :
               x = ExpertVar(v) /\ env[x] = "" /\ fallback_available(a, v, env)
          THEN env[CHOOSE v \in ProviderVars(a.expert_provider) : x = ExpertVar(v)]
          ELSE env[x]]

\* validate_environment: the expert variables that are not set after the fallback
expert_missing(a, env) ==
    {ExpertVar(v) : v \in {u \in ProviderVars(a.expert_provider) :
                              fallback(a, env)[ExpertVar(u)] = ""}}

\* The environments of a run with the default providers that passed
\* validate_environment: the primary key, with and without the expert's.
StartedEnvirons ==
    {[x \in EnvVars |->
        IF x = "ANTHROPIC_API_KEY" THEN "p"
        ELSE IF x = "EXPERT_OPENAI_API_KEY" THEN e ELSE ""] : e \in {"", "e"}}

\* main before its first agent session.
NothingRun ==
    /\ store = EmptyStore
    /\ stage = "none"
    /\ idx = 0
    /\ cur = NoSession
    /\ frame = NoFrame
    /\ attempt = 0
    /\ streams = 0
    /\ failures = 0
    /\ sleeps = <<>>
    /\ raised = NoException
    /\ last_error = "none"
    /\ exit_code = -1
    /\ started = <<>>
    /\ ended = 0
    /\ memsavers = 3

\* The process after parse_arguments, validate_environment and the check of
\* the message.
MainStarted ==
    /\ environ \in StartedEnvirons
    /\ expert_enabled = (expert_missing(args, environ) = {})
    /\ pc = "start"
    /\ NothingRun

Started ==
    /\ MainStarted
    /\ CaptureIdle

\* A research-only run, with a provider that may fail every call.
InitResearchOnly ==
    /\ args \in {parsed(CommandLine(m, TRUE)) : m \in BaseTasks}
    /\ faults = max_retries
    /\ Started

\* Any run with a provider that raises at most MaxFaults transient errors
\* during one session, and the research-only runs with a provider that may
\* fail every call.
Init ==
    \/ /\ args \in {parsed(CommandLine(m, r)) : m \in BaseTasks, r \in BOOLEAN}
       /\ faults = MaxFaults
       /\ Started
    \/ InitResearchOnly

\* run_agent_with_retry(agent, prompt, config) is entered for a session of
\* stage stg (item: the subtask or task it is for): the first agent.stream
\* call is under way.
\* The budget of attempts is the process's: the loop variable and the
\* delays go on where the previous session left them.
StartSession_carrying(stg, i, item, agent, prompt) ==
    /\ stage' = stg
    /\ idx' = i
    /\ cur' = [agent |-> agent, prompt |-> prompt]
    /\ started' = Append(started, [stage |-> stg, item |-> item,
                                   checkpointer |-> agent.checkpointer])
    /\ streams' = 1
    /\ failures' = 0
    /\ UNCHANGED <<attempt, sleeps>>
    /\ pc' = "run"

\* A session is constructed and run_agent_with_retry is called with it.
StartSession(stg, i, item, agent, prompt) ==
    /\ stage' = stg
    /\ idx' = i
    /\ cur' = [agent |-> agent, prompt |-> prompt]
    /\ started' = Append(started, [stage |-> stg, item |-> item,
                                   checkpointer |-> agent.checkpointer])
    /\ attempt' = 0
    /\ streams' = 1
    /\ failures' = 0
    /\ sleeps' = <<>>
    /\ pc' = "run"

\* main, __main__.py:401-435: the config is stored and the Research session
\* is constructed and started.
StartResearch ==
    /\ pc = "start"
    /\ store' = [store EXCEPT !.config =
                    [present |-> TRUE, research_only |-> args.research_only]]
    /\ StartSession("Research", 0, "none",
            create_react_agent(
                get_research_tools(config_research_only(store'), expert_enabled),
                research_memory),
            research_prompt(args.message, args.research_only))
    /\ UNCHANGED <<capture_vars, environ, args, expert_enabled, faults, frame, raised, last_error, exit_code,
                   ended, memsavers>>

(***************************************************************************)
(* run_agent_with_retry (__main__.py:197-218) and what main does with the  *)
(* exception that leaves it (__main__.py:379-473).                         *)
(***************************************************************************)
\* No handler for the completion signal: every exception ends the process
\* with status 1.
main_except_uncaught(exc) ==
    /\ exit_code' = 1
    /\ pc' = "aborted"

\* A bare except around the stages: every exception ends in sys.exit(0).
main_except_any(exc) ==
    /\ exit_code' = 0
    /\ pc' = "exited"

\* An exception leaves run_agent_with_retry: main's handlers turn the
\* completion signal into sys.exit(0); anything else is not caught and ends
\* the process with a traceback and status 1.
main_except(exc) ==
    IF exc.type = "TaskCompletedException"
    THEN /\ exit_code' = 0
         /\ pc' = "exited"
    ELSE /\ exit_code' = 1
         /\ pc' = "aborted"

Raise(exc, e) ==
    /\ raised' = exc
    /\ last_error' = e
    /\ ended' = ended + 1
    /\ main_except(exc)

\* agent.stream ran to its end: break.
StreamCompletes ==
    /\ pc = "run"
    /\ pc' = "ret"
    /\ ended' = ended + 1
    /\ UNCHANGED <<capture_vars, environ, args, expert_enabled, faults, store, stage, idx, cur, frame,
                   retry_vars, raised, last_error, exit_code, started, memsavers>>

\* A retry builds the agent anew, with a checkpointer of its own.
StreamRaises_new_session ==
    /\ pc = "run"
    /\ \E e \in Errors :
          /\ IsTransient(e) => failures < faults
          /\ IF IsTransient(e)
             THEN IF IsLastAttempt(attempt)
                  THEN /\ Raise(MaxRetriesExceeded(e), e)
                       /\ failures' = failures + 1
                       /\ UNCHANGED <<attempt, streams, sleeps, cur, memsavers>>
                  ELSE /\ sleeps' = Append(sleeps, Delay(attempt))
                       /\ attempt' = attempt + 1
                       /\ streams' = streams + 1
                       /\ failures' = failures + 1
                       /\ memsavers' = memsavers + 1
                       /\ cur' = [cur EXCEPT !.agent.checkpointer = memsavers + 1]
                       /\ UNCHANGED <<pc, raised, last_error, exit_code, ended>>
             ELSE /\ Raise([type |-> e, embeds |-> "none"], e)
                  /\ UNCHANGED <<retry_vars, cur, memsavers>>
    /\ UNCHANGED <<capture_vars, environ, args, expert_enabled, faults, store, stage, idx, frame,
                   started>>

\* agent.stream raised e (the provider raises at most `faults` transient
\* errors during one session).
StreamRaises ==
    /\ pc = "run"
    /\ \E e \in Errors :
          /\ IsTransient(e) => failures < faults
          /\ IF IsTransient(e)
             THEN IF IsLastAttempt(attempt)
                  THEN /\ Raise(MaxRetriesExceeded(e), e)
                       /\ failures' = failures + 1
                       /\ UNCHANGED <<attempt, streams, sleeps>>
                  ELSE /\ sleeps' = Append(sleeps, Delay(attempt))
                       /\ attempt' = attempt + 1
                       /\ streams' = streams + 1
                       /\ failures' = failures + 1
                       /\ UNCHANGED <<pc, raised, last_error, exit_code, ended>>
             ELSE /\ Raise([type |-> e, embeds |-> "none"], e)
                  /\ UNCHANGED retry_vars
    /\ UNCHANGED <<capture_vars, environ, args, expert_enabled, faults, store, stage, idx, cur, frame,
                   started, memsavers>>

(***************************************************************************)
(* Tool calls of the running session.  Only the tools that write the store *)
(* change the state; a session may call a tool only if its agent was built *)
(* with it.                                                                *)
(***************************************************************************)
\* The descriptions a session may append to a list: one the list already
\* holds, or the first unused one (descriptions are interchangeable, so the
\* lists that differ only by renaming are not enumerated twice).
Range(seq) == {seq[i] : i \in 1..Len(seq)}
Min(a, b) == IF a < b THEN a ELSE b
Descriptions(list, names) ==
    {names[i] : i \in 1..Min(Cardinality(Range(list)) + 1, Len(names))}

CanCall(tool) == pc = "run" /\ tool \in cur.agent.tools

\* A call that leaves the store as it is is a stuttering step.
Write(key, value) ==
    /\ value # store[key]
    /\ store' = [store EXCEPT ![key] = value]

session_vars == <<capture_vars, environ, args, expert_enabled, faults, pc, stage, idx, cur, frame, retry_vars,
                  raised, last_error, exit_code, started, ended, memsavers>>

emit_research_notes ==
    /\ CanCall("emit_research_notes")
    /\ \E n \in Notes : Write("research_notes", store.research_notes \cup {n})
    /\ UNCHANGED session_vars

emit_key_facts ==
    /\ CanCall("emit_key_facts")
    /\ \E f \in Facts : Write("key_facts", store.key_facts \cup {f})
    /\ UNCHANGED session_vars

delete_key_facts ==
    /\ CanCall("delete_key_facts")
    /\ \E f \in Facts : Write("key_facts", store.key_facts \ {f})
    /\ UNCHANGED session_vars

emit_key_snippets ==
    /\ CanCall("emit_key_snippets")
    /\ \E k \in Snippets : Write("key_snippets", store.key_snippets \cup {k})
    /\ UNCHANGED session_vars

delete_key_snippets ==
    /\ CanCall("delete_key_snippets")
    /\ \E k \in Snippets : Write("key_snippets", store.key_snippets \ {k})
    /\ UNCHANGED session_vars

emit_related_files ==
    /\ CanCall("emit_related_files")
    /\ \E f \in Files : Write("related_files", store.related_files \cup {f})
    /\ UNCHANGED session_vars

emit_research_subtask ==
    /\ CanCall("emit_research_subtask")
    /\ Len(store.research_subtasks) < MaxSubtasks
    /\ \E t \in Descriptions(store.research_subtasks, SubtaskNames) :
          Write("research_subtasks", Append(store.research_subtasks, t))
    /\ UNCHANGED session_vars

request_implementation ==
    /\ CanCall("request_implementation")
    /\ Write("implementation_requested",
             store.implementation_requested \cup {"requested"})
    /\ UNCHANGED session_vars

emit_plan ==
    /\ CanCall("emit_plan")
    /\ \E p \in Plans : Write("plan", store.plan \cup {p})
    /\ UNCHANGED session_vars

emit_task ==
    /\ CanCall("emit_task")
    /\ Len(store.tasks) < MaxTasks
    /\ \E t \in Descriptions(store.tasks, TaskNames) : Write("tasks", Append(store.tasks, t))
    /\ UNCHANGED session_vars

(***************************************************************************)
(* main after the Research session (__main__.py:440-469).                  *)
(***************************************************************************)
\* The module-level checkpointer is used for every task.
MemorySaver_shared == implementation_memory

\* A fresh MemorySaver(): an object no earlier session holds.
MemorySaver == memsavers + 1

InResearch_anywhere == stage # "none"

\* main is between its Research session and the Planning stage
\* (__main__.py:438-444).
InResearch == stage \in {"Research", "ResearchSubtasks"}

\* Every subtask starts from a store without the notes of the sessions
\* before it.
RunSubtask_clearing ==
    /\ pc = "ret"
    /\ InResearch
    /\ idx < Len(store.research_subtasks)
    /\ memsavers' = memsavers + 1
    /\ store' = [store EXCEPT !.research_notes = {}]
    /\ StartSession("ResearchSubtasks", idx + 1, store.research_subtasks[idx + 1],
            create_react_agent(subtask_tools(store, expert_enabled), MemorySaver),
            subtask_prompt(store.research_subtasks[idx + 1]))
    /\ UNCHANGED <<capture_vars, environ, args, expert_enabled, faults, frame, raised, last_error,
                   exit_code, ended>>

\* run_research_subtasks (__main__.py:256-284): the next subtask's session.
RunSubtask ==
    /\ pc = "ret"
    /\ InResearch
    /\ idx < Len(store.research_subtasks)
    /\ memsavers' = memsavers + 1
    /\ StartSession("ResearchSubtasks", idx + 1, store.research_subtasks[idx + 1],
            create_react_agent(subtask_tools(store, expert_enabled), MemorySaver),
            subtask_prompt(store.research_subtasks[idx + 1]))
    /\ UNCHANGED <<capture_vars, environ, args, expert_enabled, faults, store, frame, raised, last_error,
                   exit_code, ended>>

\* The subtasks are done and the query is informational: main returns.
FinishInformational ==
    /\ pc = "ret"
    /\ InResearch
    /\ idx >= Len(store.research_subtasks)
    /\ is_informational_query(store)
    /\ pc' = "done"
    /\ exit_code' = 0
    /\ UNCHANGED <<capture_vars, environ, args, expert_enabled, faults, store, stage, idx, cur, frame,
                   retry_vars, raised, last_error, started, ended, memsavers>>

\* The subtasks are done and implementation was requested: the Planning
\* session (__main__.py:444-459).
StartPlanning ==
    /\ pc = "ret"
    /\ InResearch
    /\ idx >= Len(store.research_subtasks)
    /\ ~is_informational_query(store)
    /\ StartSession("Planning", 0, "none",
            create_react_agent(get_planning_tools(expert_enabled), planning_memory),
            planning_prompt(store, args.message))
    /\ UNCHANGED <<capture_vars, environ, args, expert_enabled, faults, store, frame, raised, last_error,
                   exit_code, ended, memsavers>>

\* One iteration of run_implementation_stage's loop (__main__.py:233-253):
\* task number i of the store's task list.
StartTask(i, fr) ==
    /\ memsavers' = memsavers + 1
    /\ StartSession("Implementation", i, store.tasks[i],
            create_react_agent(get_implementation_tools(expert_enabled), MemorySaver),
            task_prompt(store, fr.base_task, fr.plan, fr.related_files,
                        store.tasks[i]))

MainReturns ==
    /\ pc' = "done"
    /\ exit_code' = 0
    /\ UNCHANGED <<stage, idx, cur, retry_vars, started, memsavers>>

\* main calls run_implementation_stage (__main__.py:462-469, 220-233): the
\* arguments are evaluated, the stage is skipped unless implementation was
\* requested, and the first task's session is started.
run_implementation_stage ==
    /\ pc = "ret"
    /\ stage = "Planning"
    /\ frame' = [base_task |-> args.message,
                 plan |-> get_memory_value(store, "plan"),
                 related_files |-> get_related_files(store)]
    /\ IF ~is_stage_requested(store, "implementation")
       THEN MainReturns
       ELSE IF Len(store.tasks) = 0
            THEN MainReturns
            ELSE StartTask(1, frame') /\ UNCHANGED exit_code
    /\ UNCHANGED <<capture_vars, environ, args, expert_enabled, faults, store, raised, last_error, ended>>

\* The tasks are fanned out: the next task's session is started while the
\* previous one is still running.
NextTask_concurrent ==
    /\ pc = "run"
    /\ stage = "Implementation"
    /\ idx < Len(store.tasks)
    /\ StartTask(idx + 1, frame)
    /\ UNCHANGED <<capture_vars, environ, args, expert_enabled, faults, store, frame, raised, last_error,
                   exit_code, ended>>

\* The loop goes on to the next task.
NextTask ==
    /\ pc = "ret"
    /\ stage = "Implementation"
    /\ idx < Len(store.tasks)
    /\ StartTask(idx + 1, frame)
    /\ UNCHANGED <<capture_vars, environ, args, expert_enabled, faults, store, frame, raised, last_error,
                   exit_code, ended>>

\* The loop is over: run_implementation_stage and main return.
ImplementationReturns ==
    /\ pc = "ret"
    /\ stage = "Implementation"
    /\ idx >= Len(store.tasks)
    /\ MainReturns
    /\ UNCHANGED <<capture_vars, environ, args, expert_enabled, faults, store, frame, raised, last_error, ended>>

Next ==
    \/ StartResearch
    \/ StreamCompletes
    \/ StreamRaises
    \/ emit_research_notes
    \/ emit_key_facts
    \/ delete_key_facts
    \/ emit_key_snippets
    \/ delete_key_snippets
    \/ emit_related_files
    \/ emit_research_subtask
    \/ request_implementation
    \/ emit_plan
    \/ emit_task
    \/ RunSubtask
    \/ FinishInformational
    \/ StartPlanning
    \/ run_implementation_stage
    \/ NextTask
    \/ ImplementationReturns

Spec == Init /\ [][Next]_vars

\* main's own steps: it is a sequential program, a step it can take it
\* takes.
Orchestrates ==
    \/ StartResearch
    \/ RunSubtask
    \/ FinishInformational
    \/ StartPlanning
    \/ run_implementation_stage
    \/ NextTask
    \/ ImplementationReturns

\* An attempt of the running session ends: agent.stream returns or raises.
AttemptEnds == StreamCompletes \/ StreamRaises

\* The steps of a run whose agents call the tools that decide which
\* sessions main runs (subtasks, tasks, the implementation request) and, of
\* the tools whose keys main only passes on, emit_key_facts and
\* delete_key_facts, with which a session can go on writing for ever.
NextFair ==
    \/ Orchestrates
    \/ AttemptEnds
    \/ emit_key_facts
    \/ delete_key_facts
    \/ emit_research_subtask
    \/ request_implementation
    \/ emit_task

\* The runs in which every attempt of every session terminates.
SpecFair == Init /\ [][NextFair]_vars /\ WF_vars(Orchestrates) /\ WF_vars(AttemptEnds)

\* The steps of a research-only run.
NextResearchOnly ==
    \/ StartResearch
    \/ StreamCompletes
    \/ StreamRaises
    \/ emit_research_notes
    \/ emit_key_facts
    \/ delete_key_facts
    \/ emit_key_snippets
    \/ delete_key_snippets
    \/ emit_related_files
    \/ emit_research_subtask
    \/ RunSubtask
    \/ FinishInformational

SpecRetry == InitResearchOnly /\ [][NextResearchOnly]_vars

(***************************************************************************)
(* Start-up: main from the command line to its first agent session.        *)
(***************************************************************************)
\* argparse's parser.error prints the usage and exits with status 2.
usage_status == 2

\* sys.exit(status) raised in main: SystemExit is not a
\* TaskCompletedException, the process ends with the status.
sys_exit(status) ==
    /\ pc' = "rejected"
    /\ exit_code' = status

startup_vars == <<capture_vars, faults, store, stage, idx, cur, frame, retry_vars, raised,
                  last_error, started, ended, memsavers>>

parse_arguments ==
    /\ pc = "argv"
    /\ IF usage_error(args)
         THEN sys_exit(usage_status) /\ UNCHANGED args
         ELSE /\ args' = parsed(args)
              /\ pc' = "parsed"
              /\ UNCHANGED exit_code
    /\ UNCHANGED <<environ, expert_enabled, startup_vars>>

validate_environment ==
    /\ pc = "parsed"
    /\ environ' = fallback(args, environ)
    /\ IF missing(args, environ) # {}
         THEN sys_exit(1) /\ UNCHANGED expert_enabled
         ELSE /\ expert_enabled' = (expert_missing(args, environ) = {})
              /\ pc' = "validated"
              /\ UNCHANGED exit_code
    /\ UNCHANGED <<args, startup_vars>>

\* main: the model is created, then the message is required.
RequireMessage ==
    /\ pc = "validated"
    /\ IF args.message = ""
         THEN sys_exit(1)
         ELSE pc' = "start" /\ UNCHANGED exit_code
    /\ UNCHANGED <<environ, args, expert_enabled, startup_vars>>

\* The process as it is started: nothing is parsed, expert_enabled is not
\* assigned yet.
Invoked_main(cmdline, env) ==
    /\ args = cmdline
    /\ environ = env
    /\ expert_enabled = FALSE
    /\ pc = "argv"
    /\ NothingRun
    /\ CaptureIdle

\* Every command line in every environment, up to the first session.
InitStartup ==
    /\ faults = 0
    /\ \E cmdline \in CommandLines, env \in Environs : Invoked_main(cmdline, env)

NextStartup ==
    \/ parse_arguments
    \/ validate_environment
    \/ RequireMessage
    \/ StartResearch

SpecStartup == InitStartup /\ [][NextStartup]_vars

\* The environment in which exactly the variables of S are set.
Env(S) ==
    [x \in EnvVars |-> IF x \notin S THEN "" ELSE IF x \in PrimaryVars THEN "p" ELSE "e"]

\* Whole runs: the default providers without a key, with the primary key,
\* with the expert's key too; the expert on the primary provider; another
\* primary provider.
RunConfigs ==
    {<<CommandLine(m, r), Env(S)>> :
        m \in {"", "m1"}, r \in BOOLEAN,
        S \in {{}, {"ANTHROPIC_API_KEY"}, {"ANTHROPIC_API_KEY", "EXPERT_OPENAI_API_KEY"}}}
    \cup {<<[CommandLine("m1", FALSE) EXCEPT !.expert_provider = "anthropic", !.expert_model = em],
            Env({"ANTHROPIC_API_KEY"})>> : em \in {"", "expert-model"}}
    \cup {<<[CommandLine("m1", FALSE) EXCEPT !.provider = "openai", !.model = mo],
            Env({"OPENAI_API_KEY"})>> : mo \in {"", "model"}}

InitMain ==
    /\ faults = 0
    /\ \E cfg \in RunConfigs : Invoked_main(cfg[1], cfg[2])

NextMain ==
    \/ parse_arguments
    \/ validate_environment
    \/ RequireMessage
    \/ StartResearch
    \/ StreamCompletes
    \/ StreamRaises
    \/ emit_research_notes
    \/ emit_key_facts
    \/ delete_key_facts
    \/ emit_key_snippets
    \/ delete_key_snippets
    \/ emit_related_files
    \/ emit_research_subtask
    \/ request_implementation
    \/ emit_plan
    \/ emit_task
    \/ RunSubtask
    \/ FinishInformational
    \/ StartPlanning
    \/ run_implementation_stage
    \/ NextTask
    \/ ImplementationReturns

SpecMain == InitMain /\ [][NextMain]_vars

(***************************************************************************)
(* run_implementation_stage called on any store: the task lists, with and  *)
(* without a plan, related files and an implementation request.            *)
(***************************************************************************)
TaskLists ==
    {<<>>} \cup {<<TaskNames[1]>>}
           \cup {<<TaskNames[1], TaskNames[i]>> : i \in 1..2}

StoresAfterPlanning ==
    {[EmptyStore EXCEPT !.config = [present |-> TRUE, research_only |-> FALSE],
                        !.tasks = t, !.plan = p, !.related_files = f,
                        !.implementation_requested = r] :
        t \in TaskLists, p \in SUBSET Plans, f \in SUBSET Files,
        r \in SUBSET {"requested"}}

InitImplementation ==
    /\ args = parsed(CommandLine("m1", FALSE))
    /\ environ = Env({"ANTHROPIC_API_KEY", "EXPERT_OPENAI_API_KEY"})
    /\ expert_enabled = TRUE
    /\ faults = 1
    /\ store \in StoresAfterPlanning
    /\ pc = "ret"
    /\ stage = "Planning"
    /\ idx = 0
    /\ cur = [agent |-> create_react_agent(get_planning_tools(expert_enabled), planning_memory),
              prompt |-> planning_prompt(store, args.message)]
    /\ frame = NoFrame
    /\ attempt = 0
    /\ streams = 1
    /\ failures = 0
    /\ sleeps = <<>>
    /\ raised = NoException
    /\ last_error = "none"
    /\ exit_code = -1
    /\ started = <<[stage |-> "Research", item |-> "none", checkpointer |-> research_memory],
                   [stage |-> "Planning", item |-> "none", checkpointer |-> planning_memory]>>
    /\ ended = 2
    /\ memsavers = 3
    /\ CaptureIdle

NextImplementation ==
    \/ run_implementation_stage
    \/ NextTask
    \/ ImplementationReturns
    \/ StreamCompletes
    \/ StreamRaises
    \/ emit_key_facts
    \/ delete_key_facts
    \/ emit_key_snippets
    \/ delete_key_snippets
    \/ emit_related_files

SpecImplementation == InitImplementation /\ [][NextImplementation]_vars

(***************************************************************************)
(* run_interactive_command (ra_aid/proc/interactive.py:17-106).            *)
(***************************************************************************)
\* Every name resolves.
which_any(x) == x

\* shutil.which (interactive.py:37)
which(x) == IF x \in PATH THEN x ELSE "None"

\* shlex.quote: one shell word that stands for the argument.
shlex_quote(c) == [word |-> c]

\* The shell reading the script's command line back into arguments.
sh_words(line) == [i \in 1..Len(line) |-> line[i].word]

\* interactive.py:60-61
output_path(script_path) == script_path \o <<".out">>
retcode_path(script_path) == script_path \o <<".retcode">>

\* The content of a file of bytes.
Bytes(b) == [kind |-> "bytes", line |-> <<>>, retcode_to |-> NoPath, bytes |-> b]

\* interactive.py:51-56: the script runs the quoted command and writes its
\* exit code to "{script_path}.retcode".
script_content(cmd, script_path) ==
    [kind |-> "script",
     line |-> [i \in 1..Len(cmd) |-> shlex_quote(cmd[i])],
     retcode_to |-> script_path \o <<".retcode">>,
     bytes |-> <<>>]

\* os.path.exists, reading a file, os.remove, writing a file.
exists(p) == \E f \in files : f.path = p
File(p) == CHOOSE f \in files : f.path = p
remove(fs, p) == {f \in fs : f.path # p}
create(fs, p, c, content) ==
    remove(fs, p) \cup {[path |-> p, owner |-> c, content |-> content]}

\* Only digits are taken for parameter bytes.
IsParam_digits(x) == x \in 48..57

\* The bytes of rb'[0-9;]', rb'[a-zA-Z]' and rb'[\x00-\x08\x0b\x0c\x0e-\x1f]'
\* (interactive.py:72-73).
IsParam(x) == x \in 48..57 \/ x = 59
IsLetter(x) == x \in 65..90 \/ x \in 97..122
IsControl_below_esc(x) == x \in 0..8 \/ x \in {11, 12} \/ x \in 14..26
IsControl(x) == x \in 0..8 \/ x \in {11, 12} \/ x \in 14..31

RECURSIVE SkipParams(_, _)
SkipParams(b, j) ==
    IF j <= Len(b) /\ IsParam(b[j]) THEN SkipParams(b, j + 1) ELSE j

\* The length of the match of rb'\x1b\[[0-9;]*[a-zA-Z]' at the head of b, 0
\* when there is none.
CSILen(b) ==
    IF Len(b) >= 3 /\ b[1] = 27 /\ b[2] = 91
    THEN LET j == SkipParams(b, 3)
         IN  IF j <= Len(b) /\ IsLetter(b[j]) THEN j ELSE 0
    ELSE 0

\* re.sub(rb'\x1b\[[0-9;]*[a-zA-Z]', b'', b), interactive.py:72
RECURSIVE StripCSI(_)
StripCSI(b) ==
    IF b = <<>>
    THEN <<>>
    ELSE IF CSILen(b) > 0
         THEN StripCSI(SubSeq(b, CSILen(b) + 1, Len(b)))
         ELSE <<Head(b)>> \o StripCSI(Tail(b))

\* re.sub(rb'[\x00-\x08\x0b\x0c\x0e-\x1f]', b'', b), interactive.py:73
StripControl(b) == SelectSeq(b, LAMBDA x : ~IsControl(x))

\* interactive.py:72-73
sanitize(b) == StripControl(StripCSI(b))

\* echo $exit_code: the decimal digits and a line feed (interactive.py:54).
RECURSIVE Digits(_)
Digits(n) ==
    IF n < 10 THEN <<48 + n>> ELSE Digits(n \div 10) \o <<48 + (n % 10)>>

echo(n) == Digits(n) \o <<10>>

\* str.strip and int (interactive.py:78)
IsSpace(x) == x \in {9, 10, 11, 12, 13, 32}

RECURSIVE lstrip(_)
lstrip(b) == IF b # <<>> /\ IsSpace(Head(b)) THEN lstrip(Tail(b)) ELSE b

RECURSIVE rstrip(_)
rstrip(b) ==
    IF b # <<>> /\ IsSpace(b[Len(b)])
    THEN rstrip(SubSeq(b, 1, Len(b) - 1))
    ELSE b

\* Nothing is stripped.
strip_none(b) == b

strip(b) == rstrip(lstrip(b))

\* Every text is taken for an integer.
IsInt_any(b) == TRUE

\* Whether int() accepts the text; otherwise it raises ValueError.
IsInt(b) == b # <<>> /\ \A i \in 1..Len(b) : b[i] \in 48..57

RECURSIVE int(_)
int(b) ==
    IF b = <<>>
    THEN 0
    ELSE 10 * int(SubSeq(b, 1, Len(b) - 1)) + (b[Len(b)] - 48)

\* interactive.py:76-80
read_return_code(sp) ==
    IF exists(retcode_path(sp))
    THEN LET text == strip(File(retcode_path(sp)).content.bytes)
         IN  IF IsInt(text) THEN int(text) ELSE 1
    ELSE 1

\* The handler does not re-raise.
Except_swallow(c, e) == [calls EXCEPT ![c].pc = "cleanup"]

\* An exception leaves the try block (interactive.py:90-97): the handler
\* prints and re-raises, and the finally clause runs.
Except(c, e) == [calls EXCEPT ![c].exc = e, ![c].pc = "cleanup"]

\* interactive.py:34-38: the call and its precondition checks.
Invoked(c, cmd) ==
    [calls EXCEPT ![c] =
        IF cmd = <<>>
        THEN [@ EXCEPT !.pc = "raised", !.exc = "ValueError"]
        ELSE IF which(cmd[1]) = "None"
             THEN [@ EXCEPT !.pc = "raised", !.cmd = cmd,
                            !.exc = "FileNotFoundError"]
             ELSE [@ EXCEPT !.pc = "tempfile", !.cmd = cmd]]

\* run_interactive_command is called with some command vector.
run_interactive_command(c) ==
    /\ calls[c].pc = "idle"
    /\ \E cmd \in Cmds : calls' = Invoked(c, cmd)
    /\ UNCHANGED <<files, tool_call, main_vars>>

\* interactive.py:48-49: a file of a name no file has is created, or the
\* creation fails.
NamedTemporaryFile(c) ==
    /\ calls[c].pc = "tempfile"
    /\ \/ \E n \in TempNames :
             LET p == <<"script_", n>>
             IN  /\ ~exists(p)
                 /\ files' = create(files, p, c, Bytes(<<>>))
                 /\ calls' = [calls EXCEPT ![c].script_path = p, ![c].pc = "write"]
       \/ /\ calls' = [calls EXCEPT ![c].exc = "OSError", ![c].pc = "raised"]
          /\ UNCHANGED files
    /\ UNCHANGED <<tool_call, main_vars>>

\* interactive.py:51-58: the script is written, made executable and closed;
\* a failure of one of these leaves the function, the try statement of line
\* 63 not yet entered.
WriteScript(c) ==
    /\ calls[c].pc = "write"
    /\ LET sp == calls[c].script_path
       IN  \/ /\ files' = create(files, sp, c, script_content(calls[c].cmd, sp))
              /\ calls' = [calls EXCEPT ![c].pc = "system"]
           \/ /\ calls' = [calls EXCEPT ![c].exc = "OSError", ![c].pc = "raised"]
              /\ UNCHANGED files
    /\ UNCHANGED <<tool_call, main_vars>>

\* interactive.py:65: os.system runs the capture utility on the script.  The
\* utility records the terminal in the output file; the script runs the
\* command and records its exit code.
System(c) ==
    /\ calls[c].pc = "system"
    /\ LET sp == calls[c].script_path
           sc == File(sp).content
           out(raw) == create(files, output_path(sp), c, Bytes(raw))
       IN  \/ \E raw \in RawOutputs, n \in ExitCodes : \E st \in {0, n} :
                 /\ files' = create(out(raw), sc.retcode_to, c, Bytes(echo(n)))
                 /\ calls' = [calls EXCEPT ![c].spawned = TRUE, ![c].ran = n,
                                           ![c].captured = raw,
                                           ![c].status = st, ![c].pc = "read"]
           \/ /\ calls' = [calls EXCEPT ![c].spawned = TRUE, ![c].status = 1,
                                        ![c].pc = "read"]
              /\ UNCHANGED files
           \/ \E raw \in RawOutputs :
                 /\ \/ files' = out(raw)
                    \/ files' = create(out(raw), sc.retcode_to, c, Bytes(<<>>))
                 /\ calls' = [calls EXCEPT ![c].spawned = TRUE, ![c].status = 1,
                                           ![c].captured = raw, ![c].pc = "read"]
           \/ \E raw \in RawOutputs :
                 /\ files' = out(raw)
                 /\ calls' = [Except(c, "KeyboardInterrupt") EXCEPT
                                  ![c].spawned = TRUE, ![c].captured = raw]
    /\ UNCHANGED <<tool_call, main_vars>>

\* interactive.py:68-69
ReadOutput(c) ==
    /\ calls[c].pc = "read"
    /\ LET p == output_path(calls[c].script_path)
       IN  IF exists(p)
           THEN calls' = [calls EXCEPT ![c].output = File(p).content.bytes,
                                       ![c].pc = "sanitize"]
           ELSE calls' = Except(c, "FileNotFoundError")
    /\ UNCHANGED <<files, tool_call, main_vars>>

\* interactive.py:72-73
Sanitize(c) ==
    /\ calls[c].pc = "sanitize"
    /\ \/ calls' = [calls EXCEPT ![c].output = sanitize(@), ![c].pc = "retcode"]
       \/ calls' = Except(c, "MemoryError")
    /\ UNCHANGED <<files, tool_call, main_vars>>

\* interactive.py:76-88
ReadRetcode(c) ==
    /\ calls[c].pc = "retcode"
    /\ calls' = [calls EXCEPT
                    ![c].return_code = read_return_code(calls[c].script_path),
                    ![c].pc = "cleanup"]
    /\ UNCHANGED <<files, tool_call, main_vars>>

\* interactive.py:97-106: one iteration of the finally clause's loop; after
\* the last the function returns or the exception goes on to the caller.
Cleanup(c) ==
    /\ calls[c].pc = "cleanup"
    /\ LET sp == calls[c].script_path
           path == <<sp, output_path(sp), retcode_path(sp)>>[calls[c].k + 1]
       IN  files' = IF exists(path) THEN remove(files, path) ELSE files
    /\ calls' = [calls EXCEPT
                    ![c].k = @ + 1,
                    ![c].pc = IF calls[c].k + 1 < 3
                              THEN "cleanup"
                              ELSE IF calls[c].exc = "none" THEN "returned" ELSE "raised"]
    /\ UNCHANGED <<tool_call, main_vars>>

\* Some invocations of run_interactive_command, in any interleaving.
InitCapture ==
    /\ args = parsed(CommandLine("m1", TRUE))
    /\ environ = Env({"ANTHROPIC_API_KEY", "EXPERT_OPENAI_API_KEY"})
    /\ faults = 0
    /\ Started

NextCapture ==
    \/ \E c \in Calls : run_interactive_command(c)
    \/ \E c \in Calls : NamedTemporaryFile(c)
    \/ \E c \in Calls : WriteScript(c)
    \/ \E c \in Calls : System(c)
    \/ \E c \in Calls : ReadOutput(c)
    \/ \E c \in Calls : Sanitize(c)
    \/ \E c \in Calls : ReadRetcode(c)
    \/ \E c \in Calls : Cleanup(c)

SpecCapture == InitCapture /\ [][NextCapture]_vars

\* The capture utility has exited, having recorded some bytes of terminal
\* output; the command exited with 0.  The function goes on from there.
InitSanitize ==
    /\ args = parsed(CommandLine("m1", TRUE))
    /\ environ = Env({"ANTHROPIC_API_KEY", "EXPERT_OPENAI_API_KEY"})
    /\ faults = 0
    /\ MainStarted
    /\ \E raw \in CapturedSamples :
          LET sp == <<"script_", "x1">>
              cmd == <<"ls", "-l">>
              script == create({}, sp, "c1", script_content(cmd, sp))
              out == create(script, output_path(sp), "c1", Bytes(raw))
          IN  /\ tool_call = NoTool
              /\ files = create(out, retcode_path(sp), "c1", Bytes(echo(0)))
              /\ calls = [c \in Calls |->
                            IF c = "c1"
                            THEN [NoCall EXCEPT !.pc = "read", !.cmd = cmd,
                                                !.script_path = sp,
                                                !.spawned = TRUE, !.ran = 0,
                                                !.captured = raw]
                            ELSE NoCall]

NextSanitize ==
    \/ ReadOutput("c1")
    \/ Sanitize("c1")
    \/ ReadRetcode("c1")
    \/ Cleanup("c1")

SpecSanitize == InitSanitize /\ [][NextSanitize]_vars

\* The sequential program: run_interactive_command is called when no other
\* invocation is under way (nothing under src/ starts a thread).
CallSequential(c) ==
    /\ \A d \in Calls : calls[d].pc \in {"idle", "returned", "raised"}
    /\ run_interactive_command(c)

NextCaptureSeq ==
    \/ \E c \in Calls : CallSequential(c)
    \/ \E c \in Calls : NamedTemporaryFile(c)
    \/ \E c \in Calls : WriteScript(c)
    \/ \E c \in Calls : System(c)
    \/ \E c \in Calls : ReadOutput(c)
    \/ \E c \in Calls : Sanitize(c)
    \/ \E c \in Calls : ReadRetcode(c)
    \/ \E c \in Calls : Cleanup(c)

SpecCaptureSeq == InitCapture /\ [][NextCaptureSeq]_vars

(***************************************************************************)
(* The command-style tools (ra_aid/tools/test.py, lint.py, ripgrep.py).    *)
(* One tool is executed; it runs its commands through                      *)
(* run_interactive_command, one invocation after the other.                *)
(***************************************************************************)
\* What get_npm_lint_command and the linter table come up with
\* (lint.py:68-86): a command, or none.
LintCommands == {"None", "npm run lint"}

\* Most bytes truncate_output keeps.
TruncateAt == 2

\* truncate_output: an oversized text is cut down to its end, behind a
\* marker (here -1).
truncate_output(text) ==
    IF Len(text) > TruncateAt
    THEN <<-1>> \o SubSeq(text, Len(text) - TruncateAt + 1, Len(text))
    ELSE text

\* bytes.decode(): UnicodeDecodeError on a byte that is not UTF-8 (of the
\* bytes above 0x7F only 0xFF occurs here, which never is).
CanDecode(b) == \A i \in 1..Len(b) : b[i] < 128

\* except Exception: every exception but KeyboardInterrupt and SystemExit.
IsException(e) == e \notin {"none", "KeyboardInterrupt", "SystemExit"}

\* test.py:69-74, lint.py:136-142
error_result(e) == [output |-> <<e>>, return_code |-> 1, success |-> FALSE]

\* ripgrep.py:165-171
ripgrep_error_result(e) == [output |-> <<e>>, return_code |-> 1]

\* The exception the try block of a tool ends with once invocation c is
\* over and its output decoded, "none" when there is none.
TryException(c) ==
    IF calls[c].pc = "raised"
    THEN calls[c].exc
    ELSE IF CanDecode(calls[c].output) THEN "none" ELSE "UnicodeDecodeError"

\* test.py:62-66
test_result(c) ==
    [output |-> IF calls[c].output # <<>>
                THEN truncate_output(calls[c].output)
                ELSE <<>>,
     return_code |-> calls[c].return_code,
     success |-> calls[c].return_code = 0]

\* lint.py:118-134
lint_result(c) ==
    [output |-> truncate_output(calls[c].output),
     return_code |-> calls[c].return_code,
     success |-> calls[c].return_code = 0]

\* len([f for f in text.strip().split('\n') if f]), ripgrep.py:116-117
RECURSIVE CountLines(_, _)
CountLines(b, inLine) ==
    IF b = <<>>
    THEN IF inLine THEN 1 ELSE 0
    ELSE IF Head(b) = 10
         THEN (IF inLine THEN 1 ELSE 0) + CountLines(Tail(b), FALSE)
         ELSE CountLines(Tail(b), TRUE)

\* ripgrep.py:123-163: the message built around the matches (-2), or the
\* message that there are none (-3), with the number of files searched.
ripgrep_result(c, total_files) ==
    [output |-> truncate_output(
                    IF calls[c].return_code = 0
                    THEN <<-2, total_files>> \o calls[c].output
                    ELSE <<-3, total_files>>),
     return_code |-> calls[c].return_code,
     success |-> calls[c].return_code = 0]

Over(c) == calls[c].pc \in {"returned", "raised"}

\* The tool ends: with the exception when it is none the tool catches, with
\* a record otherwise.
ToolEnds(e, record) ==
    tool_call' = IF e # "none" /\ ~IsException(e)
                 THEN [tool_call EXCEPT !.pc = "raised", !.exc = e]
                 ELSE [tool_call EXCEPT !.pc = "returned", !.result = record]

\* test.py:38-48
run_test_command ==
    /\ tool_call.pc = "idle"
    /\ calls["c1"].pc = "idle"
    /\ tool_call' = [tool_call EXCEPT !.name = "run_test_command",
                                      !.pc = "run", !.call = "c1"]
    /\ calls' = Invoked("c1", <<"/bin/bash", "-c", "npm test">>)
    /\ UNCHANGED <<files, main_vars>>

\* test.py:49-74
TestReturns ==
    /\ tool_call.name = "run_test_command"
    /\ tool_call.pc = "run"
    /\ Over("c1")
    /\ LET e == TryException("c1")
       IN  ToolEnds(e, IF e = "none" THEN test_result("c1") ELSE error_result(e))
    /\ UNCHANGED <<files, calls, main_vars>>

\* lint.py:67-116
run_lint_command ==
    /\ tool_call.pc = "idle"
    /\ calls["c1"].pc = "idle"
    /\ \E command \in LintCommands :
          IF command = "None"
          THEN /\ tool_call' =
                     [tool_call EXCEPT !.name = "run_lint_command",
                                       !.pc = "returned",
                                       !.result = [output |-> <<"No lint">>,
                                                   return_code |-> 1,
                                                   success |-> FALSE]]
               /\ UNCHANGED calls
          ELSE /\ tool_call' = [tool_call EXCEPT !.name = "run_lint_command",
                                                 !.pc = "run", !.call = "c1"]
               /\ calls' = Invoked("c1", <<"/bin/bash", "-c", command>>)
    /\ UNCHANGED <<files, main_vars>>

\* lint.py:117-142
LintReturns ==
    /\ tool_call.name = "run_lint_command"
    /\ tool_call.pc = "run"
    /\ Over("c1")
    /\ LET e == TryException("c1")
       IN  ToolEnds(e, IF e = "none" THEN lint_result("c1") ELSE error_result(e))
    /\ UNCHANGED <<files, calls, main_vars>>

\* ripgrep.py:54-115: the command is built and the files that would be
\* searched are listed first.
ripgrep_search ==
    /\ tool_call.pc = "idle"
    /\ calls["c1"].pc = "idle"
    /\ tool_call' = [tool_call EXCEPT !.name = "ripgrep_search",
                                      !.pc = "files", !.call = "c1"]
    /\ calls' = Invoked("c1", <<"rg", "--color", "always", "--files">>)
    /\ UNCHANGED <<files, main_vars>>

\* ripgrep.py:116-120: the listing is counted and the search is run, unless
\* the listing raised.
RipgrepSearches ==
    /\ tool_call.name = "ripgrep_search"
    /\ tool_call.pc = "files"
    /\ Over("c1")
    /\ calls["c2"].pc = "idle"
    /\ LET e == TryException("c1")
       IN  IF e = "none"
           THEN /\ tool_call' =
                      [tool_call EXCEPT
                          !.pc = "run", !.call = "c2",
                          !.total_files = CountLines(strip(calls["c1"].output), FALSE)]
                /\ calls' = Invoked("c2", <<"rg", "--color", "always", "-F", "x">>)
           ELSE /\ ToolEnds(e, ripgrep_error_result(e))
                /\ UNCHANGED calls
    /\ UNCHANGED <<files, main_vars>>

\* ripgrep.py:121-171
RipgrepReturns ==
    /\ tool_call.name = "ripgrep_search"
    /\ tool_call.pc = "run"
    /\ Over("c2")
    /\ LET e == TryException("c2")
       IN  ToolEnds(e, IF e = "none"
                       THEN ripgrep_result("c2", tool_call.total_files)
                       ELSE ripgrep_error_result(e))
    /\ UNCHANGED <<files, calls, main_vars>>

NextTools ==
    \/ run_test_command
    \/ TestReturns
    \/ run_lint_command
    \/ LintReturns
    \/ ripgrep_search
    \/ RipgrepSearches
    \/ RipgrepReturns
    \/ \E c \in Calls : NamedTemporaryFile(c)
    \/ \E c \in Calls : WriteScript(c)
    \/ \E c \in Calls : System(c)
    \/ \E c \in Calls : ReadOutput(c)
    \/ \E c \in Calls : Sanitize(c)
    \/ \E c \in Calls : ReadRetcode(c)
    \/ \E c \in Calls : Cleanup(c)

SpecTools == InitCapture /\ [][NextTools]_vars

(***************************************************************************)
(* Properties.                                                             *)
(***************************************************************************)
Terminal == {"done", "exited", "aborted"}

\* The sessions of a stage, in the order they were constructed.
SessionsOf(stg) == SelectSeq(started, LAMBDA r : r.stage = stg)

PlanningStarted == \E i \in 1..Len(started) : started[i].stage = "Planning"

\* The errors the retry policy names: timeout, rate limit, server error,
\* generic API error.
TransientErrors ==
    {"APITimeoutError", "RateLimitError", "InternalServerError", "APIError"}

\* C1: when the stream fails with a transient error on its first k < 20
\* attempts and completes on attempt k+1, run_agent_with_retry returns
\* without raising after exactly k sleeps of 1, 2, 4, ..., 2^(k-1) seconds:
\* the delay before attempt n >= 2 is 2^(n-2), k+1 streams were made, and
\* nothing was slept after the successful one.
C1_BackoffThenSuccess ==
    pc = "ret" =>
        /\ failures < 20
        /\ streams = failures + 1
        /\ sleeps = [n \in 1..failures |-> 2 ^ (n - 1)]
        /\ raised = NoException
        /\ exit_code = -1

C1_Witness ==
    /\ pc = "ret"
    /\ failures = 19
    /\ sleeps[19] = 262144

\* C2: after 20 consecutive transient failures run_agent_with_retry has
\* called the stream exactly 20 times and slept exactly 19 times (nothing
\* after the 20th failure), and raises a fatal error that embeds the error
\* of the 20th attempt.
C2_Exhaustion ==
    failures >= 20 =>
        /\ failures = 20
        /\ streams = 20
        /\ Len(sleeps) = 19
        /\ raised.type = "RuntimeError"
        /\ last_error \in TransientErrors
        /\ raised.embeds = last_error
        /\ pc = "aborted"

C2_Witness ==
    /\ failures = 20
    /\ raised = [type |-> "RuntimeError", embeds |-> "RateLimitError"]
    /\ sleeps[19] = 262144

\* C3: an error that is not transient (the completion signal included),
\* raised on any attempt, leaves run_agent_with_retry at once and as it is:
\* it is not wrapped, nothing is slept after it and the stream is not called
\* again.
C3_NonTransientPropagates ==
    (last_error # "none" /\ last_error \notin TransientErrors) =>
        /\ raised = [type |-> last_error, embeds |-> "none"]
        /\ pc \in {"exited", "aborted"}
        /\ Len(sleeps) = failures
        /\ streams = failures + 1

C3_Witness ==
    /\ raised.type = "OtherError"
    /\ failures = 5
    /\ streams = 6
    /\ Len(sleeps) = 5

\* C4: a completion signal raised during any session ends the run with
\* exit code 0: in every state after it the process has exited and every
\* session constructed has ended, so none is constructed or started after it.
C4_CompletionEndsRun ==
    last_error = "TaskCompletedException" =>
        /\ raised.type = "TaskCompletedException"
        /\ pc = "exited"
        /\ exit_code = 0
        /\ ended = Len(started)

\* The signal is raised by the first of two tasks: the second is never run.
C4_Witness ==
    /\ pc = "exited"
    /\ exit_code = 0
    /\ Len(store.tasks) = 2
    /\ Len(SessionsOf("Implementation")) = 1
    /\ Len(SessionsOf("ResearchSubtasks")) = 1

\* C5: once Research and its subtasks are over, a Planning session (and so
\* any Implementation session) is constructed if and only if research_only
\* is false and implementation_requested is not empty; otherwise the run
\* ends normally, with no Planning and no Implementation session.
C5_PlanningGate ==
    LET wanted == /\ ~config_research_only(store)
                  /\ store.implementation_requested # {}
        past == \/ pc = "done"
                \/ stage \in {"Planning", "Implementation"}
    IN  /\ PlanningStarted => wanted
        /\ SessionsOf("Implementation") # <<>> => PlanningStarted
        /\ (past /\ wanted) => PlanningStarted
        /\ (past /\ ~wanted) =>
              /\ pc = "done"
              /\ exit_code = 0
              /\ SessionsOf("Planning") = <<>>
              /\ SessionsOf("Implementation") = <<>>

C5_Witness ==
    /\ pc = "done"
    /\ ~args.research_only
    /\ store.implementation_requested = {}
    /\ Len(SessionsOf("ResearchSubtasks")) = 2
    /\ ~PlanningStarted

\* C6: when the Implementation stage runs over N tasks and no session
\* raises, exactly N task sessions are constructed, one per task in the
\* list's order, each with a checkpointer no other session has; and a
\* session is constructed only when every earlier one has ended.
C6_OneSessionPerTask ==
    /\ (pc = "done" /\ stage = "Implementation") =>
          LET ts == SessionsOf("Implementation")
          IN  /\ Len(ts) = Len(store.tasks)
              /\ \A i \in 1..Len(ts) : ts[i].item = store.tasks[i]
    /\ \A i, j \in 1..Len(started) :
          (i # j /\ started[i].stage = "Implementation") =>
              started[i].checkpointer # started[j].checkpointer
    /\ IF pc = "run" THEN Len(started) = ended + 1 ELSE Len(started) = ended

C6_Witness ==
    /\ pc = "done"
    /\ stage = "Implementation"
    /\ store.tasks = <<"t1", "t2">>
    /\ Len(SessionsOf("Implementation")) = 2

\* What a task prompt holds, each piece of text it renders.
PromptTexts(p) ==
    {p.task, p.base_task} \cup p.plan \cup p.key_facts \cup p.key_snippets
        \cup p.related_files

\* A step that constructs the session of a task.
TaskSessionStarts ==
    /\ Len(started') = Len(started) + 1
    /\ stage' = "Implementation"

\* C7: the prompt of task i's session holds the plan, the key facts and key
\* snippets accumulated in the store, the related files, the base task and
\* task i's description, and the description of no other task.
C7_TaskPrompt ==
    [][TaskSessionStarts =>
        LET p == cur'.prompt
            t == store.tasks[idx']
        IN  /\ DOMAIN p = {"plan", "key_facts", "key_snippets", "task",
                           "related_files", "base_task"}
            /\ p.task = t
            /\ p.plan = frame'.plan
            /\ p.plan = store.plan
            /\ p.key_facts = store.key_facts
            /\ p.key_snippets = store.key_snippets
            /\ p.related_files = store.related_files
            /\ p.base_task = args.message
            /\ \A j \in 1..Len(store.tasks) :
                  store.tasks[j] # t => store.tasks[j] \notin PromptTexts(p)]_vars

C7_Witness ==
    /\ pc = "run"
    /\ stage = "Implementation"
    /\ idx = 2
    /\ store.tasks = <<"t1", "t2">>
    /\ cur.prompt.task = "t2"
    /\ cur.prompt.plan = {"p1"}
    /\ cur.prompt.key_facts = {"f1"}
    /\ cur.prompt.key_snippets = {"k1"}
    /\ cur.prompt.related_files = {"a.py"}

C9_ErrorAbortsRun ==
    (last_error # "none" /\ last_error # "TaskCompletedException") =>
        /\ raised.type \in {"RuntimeError", last_error}
        /\ pc = "aborted"
        /\ exit_code > 0
        /\ ended = Len(started)

\* The first of two subtasks exhausts its retries: the second is never run.
C9_Witness ==
    /\ pc = "aborted"
    /\ exit_code = 1
    /\ raised.type = "RuntimeError"
    /\ Len(store.research_subtasks) = 2
    /\ Len(SessionsOf("ResearchSubtasks")) = 1

\* The invocation is over: control is back with the caller.
Returned(c) == calls[c].pc \in {"returned", "raised"}

\* The invocation got past the checks of interactive.py:34-38.
PastPreconditions(c) ==
    calls[c].cmd # <<>> /\ which(calls[c].cmd[1]) # "None"

\* C10: once an invocation that got past its precondition checks has
\* returned or raised, none of the files it created (the script, the .out
\* file, the .retcode file) exists.
C10_NoEphemeralFileLeft ==
    \A c \in Calls :
        (Returned(c) /\ PastPreconditions(c)) =>
            \A f \in files : f.owner # c

\* The files an invocation created.
FilesOf(c) == {f \in files : f.owner = c}

\* C11: an invocation with an empty command vector raises ValueError, and
\* one whose first element does not resolve on the search path raises
\* FileNotFoundError; in both cases no temporary file has been created and
\* no process started: the files are the same as before the call.
C11_PreconditionsFailEarly ==
    [][\A c \in Calls :
          (calls[c].pc = "idle" /\ calls'[c].pc # "idle") =>
              LET cmd == calls'[c].cmd
                  r == calls'[c]
              IN  /\ cmd = <<>> =>
                        r.pc = "raised" /\ r.exc = "ValueError"
                  /\ (cmd # <<>> /\ cmd[1] \notin PATH) =>
                        r.pc = "raised" /\ r.exc = "FileNotFoundError"
                  /\ (cmd = <<>> \/ cmd[1] \notin PATH) =>
                        /\ files' = files
                        /\ r.script_path = NoPath
                        /\ ~r.spawned]_vars

C11_Witness ==
    /\ calls["c1"].pc = "raised"
    /\ calls["c1"].exc = "ValueError"
    /\ calls["c2"].pc = "raised"
    /\ calls["c2"].cmd = <<"nosuch">>
    /\ calls["c2"].exc = "FileNotFoundError"
    /\ files = {}

\* C12: when the wrapped command ran to completion and exited with code N,
\* the invocation, if it returns, returns return_code = N, whatever the
\* capture utility's own exit status was.
C12_ReturnCodeIsTheCommands ==
    \A c \in Calls :
        (calls[c].pc = "returned" /\ calls[c].ran # -1) =>
            calls[c].return_code = calls[c].ran

C12_Witness ==
    \E c \in Calls :
        /\ calls[c].pc = "returned"
        /\ calls[c].ran = 130
        /\ calls[c].return_code = 130
        /\ calls[c].status = 0

\* The exit-code file is missing or does not hold an integer.
RetcodeDefective(c) ==
    LET p == retcode_path(calls[c].script_path)
        text == rstrip(lstrip(File(p).content.bytes))
    IN  \/ ~exists(p)
        \/ text = <<>>
        \/ \E i \in 1..Len(text) : text[i] \notin 48..57

\* C13: when the output has been read and sanitized and the exit-code file
\* is missing or does not hold an integer, reading the exit code does not
\* raise: the invocation goes on to return the sanitized output with
\* return_code 1.
C13_DefaultReturnCode ==
    [][\A c \in Calls :
          (calls[c].pc = "retcode" /\ calls'[c] # calls[c] /\ RetcodeDefective(c)) =>
              /\ calls'[c].exc = "none"
              /\ calls'[c].return_code = 1
              /\ calls'[c].output = sanitize(calls[c].captured)]_vars

C13_Witness ==
    \E c \in Calls :
        /\ calls[c].pc = "returned"
        /\ calls[c].spawned
        /\ calls[c].ran = -1
        /\ calls[c].return_code = 1
        /\ calls[c].output = <<104, 105>>
        /\ FilesOf(c) = {}

\* C15: a fault raised once the try block is entered (running the capture
\* utility, reading the output, sanitizing) reaches the caller: the
\* invocation never returns a result after it, and when it raises its files
\* have been removed.  An invocation that returns has gone through every
\* step without a fault.
C15_FaultIsReraised ==
    \A c \in Calls :
        /\ (calls[c].spawned /\ calls[c].exc # "none") =>
              /\ calls[c].pc \in {"cleanup", "raised"}
              /\ calls[c].pc = "raised" => FilesOf(c) = {}
        /\ calls[c].pc \in {"read", "sanitize", "retcode"} => calls[c].exc = "none"
        /\ calls[c].pc = "returned" =>
              /\ calls[c].exc = "none"
              /\ calls[c].return_code # -1

C15_Witness ==
    /\ calls["c1"].pc = "raised"
    /\ calls["c1"].exc = "MemoryError"
    /\ calls["c2"].pc = "raised"
    /\ calls["c2"].exc = "FileNotFoundError"
    /\ calls["c2"].spawned
    /\ files = {}

\* The elements of b at the positions keep holds of, in their order.
SubseqAt(b, keep(_)) ==
    LET F[i \in 0..Len(b)] ==
            IF i = 0
            THEN <<>>
            ELSE IF keep(i) THEN Append(F[i - 1], b[i]) ELSE F[i - 1]
    IN  F[Len(b)]

\* The control bytes the sanitizer lists: 0x00-0x08, 0x0B, 0x0C, 0x0E-0x1F.
ListedControl(x) == x \in (0..31) \ {9, 10, 13}

AsciiLetter(x) == x \in (65..90) \cup (97..122)

\* Position k of b lies in a sequence ESC '[' body letter, where body is any
\* number of bytes for which inBody holds.
InCSI(b, k, inBody(_)) ==
    \E i \in 1..k, j \in k..Len(b) :
        /\ i + 2 <= j
        /\ b[i] = 27
        /\ b[i + 1] = 91
        /\ AsciiLetter(b[j])
        /\ \A h \in (i + 2)..(j - 1) : inBody(b[h])

\* b without its sequences ESC '[' body letter and without the listed
\* control bytes.
Cleaned(b, inBody(_)) ==
    SubseqAt(b, LAMBDA k : ~InCSI(b, k, inBody) /\ ~ListedControl(b[k]))

\* The invocation holds sanitized output.
HasSanitized(c) ==
    \/ calls[c].pc \in {"retcode", "returned"}
    \/ calls[c].pc = "cleanup" /\ calls[c].exc = "none"

\* C14 as stated: the output is the captured bytes with every CSI sequence
\* (ESC '[', any parameter and intermediate bytes 0x20-0x3F, a letter)
\* removed in full and every listed control byte removed, the other bytes
\* kept in order.
C14_EveryCSIRemoved ==
    \A c \in Calls :
        HasSanitized(c) =>
            calls[c].output = Cleaned(calls[c].captured, LAMBDA x : x \in 32..63)

\* C14, amended: the output is the captured bytes with every sequence
\* ESC '[' (digits and ';')* letter removed in full and every byte of
\* 0x00-0x08, 0x0B, 0x0C, 0x0E-0x1F removed; every other byte (tab, line
\* feed, carriage return, printable bytes, DEL) is kept, in order.  Text
\* wrapped in colour codes comes out as the text.
C14_SanitizedOutput ==
    \A c \in Calls :
        HasSanitized(c) =>
            calls[c].output =
                Cleaned(calls[c].captured, LAMBDA x : x \in (48..57) \cup {59})

C14_Witness ==
    /\ calls["c1"].pc = "returned"
    /\ calls["c1"].captured = ColouredText
    /\ calls["c1"].output = <<104, 105, 10>>

\* C16: the record a command-style tool returns has the three fields
\* output, return_code and success, and success is true exactly when
\* return_code is 0, also when the capture engine raised.
C16_ToolResultRecord ==
    tool_call.pc = "returned" =>
        /\ DOMAIN tool_call.result = {"output", "return_code", "success"}
        /\ tool_call.result.success <=> (tool_call.result.return_code = 0)

\* What holds of the code: run_test_command and run_lint_command return
\* such a record on every path; ripgrep_search does when its try block
\* ends without an exception.
ToolResultRecordButRipgrepError ==
    tool_call.pc = "returned" =>
        IF tool_call.name = "ripgrep_search" /\ TryException(tool_call.call) # "none"
        THEN DOMAIN tool_call.result = {"output", "return_code"}
        ELSE /\ DOMAIN tool_call.result = {"output", "return_code", "success"}
             /\ tool_call.result.success <=> (tool_call.result.return_code = 0)

(***************************************************************************)
(* Start-up validation.                                                    *)
(***************************************************************************)
\* The variables each provider cannot run without.
Needed ==
    [p \in Providers |->
        IF p = "anthropic" THEN {"ANTHROPIC_API_KEY"}
        ELSE IF p = "openai" THEN {"OPENAI_API_KEY"}
        ELSE IF p = "openrouter" THEN {"OPENROUTER_API_KEY"}
        ELSE {"OPENAI_API_KEY", "OPENAI_API_BASE"}]

MissingMessage == args.message = ""
MissingModel == args.provider # "anthropic" /\ args.model = ""
MissingExpertModel == args.expert_provider # "openai" /\ args.expert_model = ""
MissingCredential == \E v \in Needed[args.provider] : environ[v] = ""

StartupOver == pc \notin {"argv", "parsed", "validated"}

NoSessionConstructed == started = <<>> /\ cur = NoSession /\ memsavers = 3

RejectedWith(status) == pc = "rejected" /\ exit_code = status /\ NoSessionConstructed

Validates == pc = "parsed" /\ pc' # "parsed"

\* C18: in validate_environment, for each variable the expert provider
\* needs, an EXPERT_ variable that is absent takes the value of its primary
\* variable when the expert and primary provider are the same and the
\* primary variable is set, and no other variable changes; the expert
\* capability is reported disabled exactly when one of the needed EXPERT_
\* variables is absent after that.
C18_ExpertFallback ==
    [][Validates =>
          /\ \A v \in Needed[args.expert_provider] :
                environ'[ExpertVar(v)] =
                    IF /\ environ[ExpertVar(v)] = ""
                       /\ args.expert_provider = args.provider
                       /\ environ[v] # ""
                      THEN environ[v]
                      ELSE environ[ExpertVar(v)]
          /\ \A x \in EnvVars :
                x \notin {ExpertVar(v) : v \in Needed[args.expert_provider]}
                    => environ'[x] = environ[x]
          /\ pc' = "validated" =>
                (~expert_enabled' <=>
                    \E v \in Needed[args.expert_provider] : environ'[ExpertVar(v)] = "")]_vars

\* The expert runs on the primary's OpenAI-compatible endpoint: its key was
\* copied from the primary's, its base URL was given by the user.
C18_Witness ==
    /\ pc = "validated"
    /\ expert_enabled
    /\ args.provider = "openai-compatible"
    /\ args.expert_provider = "openai-compatible"
    /\ environ["EXPERT_OPENAI_API_KEY"] = "p"
    /\ environ["EXPERT_OPENAI_API_BASE"] = "e"


\* A session is constructed in this step.
SessionStarts == Len(started') = Len(started) + 1

\* C19: no run is ended for a missing expert credential (a run that is ended
\* at start-up lacks the task description, a required model or the primary
\* credential), and every session that is constructed has both expert tools
\* in its tool set when the expert capability is enabled and neither of them
\* when it is disabled.
C19_ExpertNeverFatal ==
    [][/\ pc' = "rejected" =>
             MissingMessage \/ MissingModel \/ MissingExpertModel \/ MissingCredential
       /\ SessionStarts =>
             /\ cur'.agent.tools # {}
             /\ IF expert_enabled
                  THEN {"ask_expert", "emit_expert_context"} \subseteq cur'.agent.tools
                  ELSE {"ask_expert", "emit_expert_context"} \cap cur'.agent.tools = {}]_vars

\* A run without the expert's key that went through Research, a subtask and
\* Planning and is in an Implementation session without the expert tools.
C19_Witness ==
    /\ environ["ANTHROPIC_API_KEY"] # ""
    /\ environ["EXPERT_OPENAI_API_KEY"] = ""
    /\ ~expert_enabled
    /\ stage = "Implementation"
    /\ pc = "run"
    /\ {"ask_expert", "emit_expert_context"} \cap cur.agent.tools = {}
    /\ \E i \in 1..Len(started) : started[i].stage = "ResearchSubtasks"
    /\ \E i \in 1..Len(started) : started[i].stage = "Planning"


(***************************************************************************)
(* The order of the stages.                                                *)
(***************************************************************************)
StageOrder ==
    <<"none", "Research", "ResearchSubtasks", "Planning", "Implementation", "Done">>

Rank(s) == CHOOSE i \in 1..Len(StageOrder) : StageOrder[i] = s

CurrentStage == IF pc \in Terminal THEN "Done" ELSE stage

\* C20: no step takes the run to an earlier stage of Research,
\* ResearchSubtasks, Planning, Implementation, Done, and a session that is
\* started belongs to a stage that is not earlier than the stage of any
\* session started before it.
C20_StageForwardOnly ==
    [][/\ Rank(CurrentStage') >= Rank(CurrentStage)
       /\ SessionStarts =>
             \A i \in 1..Len(started) : Rank(started[i].stage) <= Rank(stage')]_vars

\* A run that went through all four stages and is done.
C20_Witness ==
    /\ CurrentStage = "Done"
    /\ pc = "done"
    /\ \A k \in 2..5 : \E i \in 1..Len(started) : Rank(started[i].stage) = k
    /\ \A i, j \in 1..Len(started) :
          i < j => Rank(started[i].stage) <= Rank(started[j].stage)


(***************************************************************************)
(* One session at a time.                                                  *)
(***************************************************************************)
\* The sessions that were started and have not terminated.
Active == Len(started) - ended

\* C21: after every step at most one session is active, one is active
\* exactly while run_agent_with_retry is executing it (streaming or
\* sleeping before the next attempt), and a step that starts a session
\* finds every earlier session terminated.
C21_OneActiveSession ==
    [][/\ Active' \in {0, 1}
       /\ Active' = 1 <=> pc' = "run"
       /\ SessionStarts => Active = 0 /\ pc # "run"]_vars

\* The second task's session, retrying after a transient error, with the
\* four sessions before it terminated.
C21_Witness ==
    /\ pc = "run"
    /\ stage = "Implementation"
    /\ idx = 2
    /\ failures > 0
    /\ Len(started) >= 4
    /\ ended = Len(started) - 1


(***************************************************************************)
(* The research subtasks.                                                  *)
(***************************************************************************)
\* run_research_subtasks has returned.
SubtasksOver == stage \in {"Planning", "Implementation"} \/ pc = "done"

\* The subtask sessions run so far follow the Research session directly:
\* the k-th of them is the (k+1)-th session of the run, it is the session
\* of the k-th subtask of the store and its checkpointer is no other
\* session's; once run_research_subtasks has returned there is one for
\* every subtask of the store.
SubtaskSessionsInOrder ==
    /\ \A i \in 1..Len(started) :
          started[i].stage = "ResearchSubtasks" =>
              /\ i >= 2
              /\ i - 1 <= Len(store.research_subtasks)
              /\ started[i].item = store.research_subtasks[i - 1]
              /\ started[i - 1].stage \in {"Research", "ResearchSubtasks"}
              /\ \A j \in 1..Len(started) :
                    j # i => started[j].checkpointer # started[i].checkpointer
    /\ started # <<>> => started[1].stage = "Research"
    /\ SubtasksOver =>
          /\ Len(started) >= Len(store.research_subtasks) + 1
          /\ \A k \in 1..Len(store.research_subtasks) :
                started[k + 1].stage = "ResearchSubtasks"

EntersImplementation == pc = "ret" /\ stage = "Planning"

\* C23: the step that enters the Implementation stage on a store without an
\* implementation request returns from main at once, constructs no session
\* and no checkpointer and leaves the store as it is, whatever the task
\* list holds; no Implementation session exists while the store holds no
\* request.
C23_SkippedWithoutRequest ==
    [][/\ (EntersImplementation /\ store.implementation_requested = {}) =>
             /\ pc' = "done"
             /\ exit_code' = 0
             /\ started' = started
             /\ cur' = cur
             /\ memsavers' = memsavers
             /\ store' = store
       /\ store'.implementation_requested = {} => SessionsOf("Implementation")' = <<>>]_vars

\* The stage was skipped although two tasks and a plan were in the store.
C23_Witness ==
    /\ pc = "done"
    /\ stage = "Planning"
    /\ store.implementation_requested = {}
    /\ Len(store.tasks) = 2
    /\ store.plan # {}
    /\ SessionsOf("Implementation") = <<>>
    /\ frame # NoFrame


(***************************************************************************)
(* Who writes the store.                                                   *)
(***************************************************************************)
\* A step inside the running session's agent.stream: the orchestrator's
\* position, loop variables and sessions are as before.
ToolCallStep ==
    /\ pc = "run"
    /\ pc' = "run"
    /\ <<stage, idx, cur, frame, attempt, streams, failures, sleeps, started, ended,
         memsavers, exit_code>>' =
       <<stage, idx, cur, frame, attempt, streams, failures, sleeps, started, ended,
         memsavers, exit_code>>

\* The keys whose value the step changes.
Written == {k \in DOMAIN store : store'[k] # store[k]}

\* C24: a step that is not a tool call of the running session changes no
\* key of the store but config, which main writes once, in the step that
\* starts the Research session, when no session has been constructed; a
\* tool call never writes config.
C24_OrchestratorKeepsStore ==
    [][/\ DOMAIN store' = DOMAIN store
       /\ ~ToolCallStep =>
             /\ Written \subseteq {"config"}
             /\ Written # {} =>
                   /\ started = <<>>
                   /\ ~store.config.present
                   /\ store'.config.present
                   /\ stage' = "Research"
       /\ ToolCallStep => "config" \notin Written]_vars

\* The second task's session is retrying; what the Research, subtask and
\* Planning sessions wrote is in the store.
C24_Witness ==
    /\ stage = "Implementation"
    /\ idx = 2
    /\ pc = "run"
    /\ failures > 0
    /\ store.config.present
    /\ store.research_notes # {}
    /\ store.key_facts # {}
    /\ store.key_snippets # {}
    /\ store.related_files # {}
    /\ Len(store.research_subtasks) > 0
    /\ store.plan # {}
    /\ store.implementation_requested # {}


(***************************************************************************)
(* The retry budget of a session.                                          *)
(***************************************************************************)
\* C25: every session starts with attempt 0, no failure counted and no
\* delay slept, whatever the call before it went through; within a session
\* the k-th sleep lasts 2^(k-1) seconds, so the first lasts 1 second, and a
\* transient error ends the session only when it is the session's 20th.
C25_FullBudgetPerSession ==
    [][/\ SessionStarts =>
             attempt' = 0 /\ failures' = 0 /\ streams' = 1 /\ sleeps' = <<>>
       /\ (~SessionStarts /\ sleeps' # sleeps) =>
             /\ sleeps' = Append(sleeps, 2 ^ Len(sleeps))
             /\ Len(sleeps') <= 19
             /\ pc' = "run"
       /\ (pc = "run" /\ pc' = "aborted" /\ last_error' \in TransientErrors) =>
             /\ Len(sleeps) = 19
             /\ streams = 20
             /\ failures' = 20]_vars

\* The second session, a subtask's, used a whole budget of its own: 20
\* attempts, from a first delay of 1 second.
C25_Witness ==
    /\ Len(started) = 2
    /\ stage = "ResearchSubtasks"
    /\ pc = "aborted"
    /\ raised.type = "RuntimeError"
    /\ streams = 20
    /\ Len(sleeps) = 19
    /\ sleeps[1] = 1


(***************************************************************************)
(* The sanitizer applied to its own output.                                *)
(***************************************************************************)
\* C26: the output of a call that sanitized holds no ESC byte and no byte
\* of 0x00-0x08, 0x0B, 0x0C, 0x0E-0x1F, and sanitizing it again (by the
\* two substitutions, and by the positional definition of their result)
\* gives the output itself.
C26_SanitizeIdempotent ==
    \A c \in Calls :
        HasSanitized(c) =>
            /\ \A i \in 1..Len(calls[c].output) :
                  /\ calls[c].output[i] # 27
                  /\ calls[c].output[i] \notin (0..8) \cup {11, 12} \cup (14..31)
            /\ sanitize(calls[c].output) = calls[c].output
            /\ Cleaned(calls[c].output, LAMBDA x : x \in (48..57) \cup {59}) = calls[c].output

\* ESC '[' ESC 'm' was captured: no sequence is matched, the two ESC bytes
\* are removed as control bytes, and "[m" is returned.
C26_Witness ==
    /\ HasSanitized("c1")
    /\ calls["c1"].captured = <<27, 91, 27, 109>>
    /\ calls["c1"].output = <<91, 109>>


(***************************************************************************)
(* What a retry keeps.                                                     *)
(***************************************************************************)
\* agent.stream raised a transient error and run_agent_with_retry calls it
\* again.
Retries == pc = "run" /\ pc' = "run" /\ failures' = failures + 1

\* C27: a retry changes nothing of the store, calls agent.stream once more
\* on the same agent, with the same checkpointer and the same prompt, and
\* constructs neither a session nor a checkpointer; and no step but a tool
\* call of a session takes anything written by a tool out of the store.
C27_RetryKeepsStoreAndSession ==
    [][/\ Retries =>
             /\ store' = store
             /\ cur' = cur
             /\ streams' = streams + 1
             /\ started' = started
             /\ ended' = ended
             /\ memsavers' = memsavers
             /\ stage' = stage /\ idx' = idx
       /\ ~ToolCallStep =>
             \A k \in DOMAIN store \ {"config"} : store'[k] = store[k]]_vars

\* The Planning session is in its third attempt, on the module's planning
\* checkpointer, with the plan, the tasks and the research results in the
\* store.
C27_Witness ==
    /\ stage = "Planning"
    /\ pc = "run"
    /\ failures = 2
    /\ streams = 3
    /\ cur.agent.checkpointer = planning_memory
    /\ Len(SessionsOf("Planning")) = 1
    /\ store.plan # {}
    /\ Len(store.tasks) > 0
    /\ store.key_facts # {}
    /\ store.research_notes # {}


(***************************************************************************)
(* Research-only runs.                                                     *)
(***************************************************************************)
\* C28: in a run with --research-only the tool set of the session that is
\* running (and of every session that ran) does not hold
\* request_implementation, the store holds no implementation request, and
\* every session constructed is the Research session or a subtask's.
C28_ResearchOnlyNeverImplements ==
    args.research_only =>
        /\ "request_implementation" \notin cur.agent.tools
        /\ store.implementation_requested = {}
        /\ \A i \in 1..Len(started) :
              started[i].stage \in {"Research", "ResearchSubtasks"}
        /\ stage \in {"none", "Research", "ResearchSubtasks"}

\* A research-only run that ran two subtask sessions and ended normally.
C28_Witness ==
    /\ args.research_only
    /\ pc = "done"
    /\ exit_code = 0
    /\ Len(SessionsOf("ResearchSubtasks")) = 2
    /\ Len(started) = 3
    /\ store.implementation_requested = {}


(***************************************************************************)
(* Concurrent invocations.                                                 *)
(***************************************************************************)
\* The invocation has its three paths and has not returned or raised.
InFlight(c) == calls[c].script_path # NoPath /\ ~Returned(c)

PathsOf(c) ==
    {calls[c].script_path, output_path(calls[c].script_path),
     retcode_path(calls[c].script_path)}

\* C29: two invocations in flight never have a path in common, and a file
\* at one of an in-flight invocation's paths was created by that invocation
\* (so what it reads and what it removes is its own).
C29_DisjointEphemeralPaths ==
    \A c, d \in Calls :
        (c # d /\ InFlight(c) /\ InFlight(d)) =>
            /\ PathsOf(c) \cap PathsOf(d) = {}
            /\ \A f \in files : f.path \in PathsOf(c) => f.owner = c


(***************************************************************************)
(* Termination.                                                            *)
(***************************************************************************)
\* The sessions and attempts of a run are bounded by what the store holds,
\* and a run that has ended has the exit code of its ending.
BoundedRun ==
    /\ streams <= max_retries
    /\ Len(sleeps) <= max_retries - 1
    /\ Len(SessionsOf("Research")) <= 1
    /\ Len(SessionsOf("ResearchSubtasks")) <= Len(store.research_subtasks)
    /\ Len(SessionsOf("Planning")) <= 1
    /\ Len(SessionsOf("Implementation")) <= Len(store.tasks)
    /\ Len(started) <= 2 + Len(store.research_subtasks) + Len(store.tasks)
    /\ pc \in {"done", "exited"} => exit_code = 0
    /\ pc = "aborted" => exit_code > 0
    /\ pc \notin Terminal => exit_code = -1

\* C30: when every attempt of every session terminates, the run reaches a
\* terminal state (ended normally or by the completion signal with exit
\* code 0, or aborted with a non-zero exit code); until then it has run at
\* most one Research session, one session per subtask, one Planning session
\* and one session per task, of at most 20 attempts each; and once it is in
\* a terminal state nothing changes any more: no session is started.
C30_RunTerminates ==
    /\ []BoundedRun
    /\ [][(pc \in Terminal) =>
              (started' = started /\ pc' = pc /\ exit_code' = exit_code)]_vars
    /\ <>(pc \in Terminal)

\* A run that went through all its sessions, 1 + 2 + 1 + 2, and ended.
C30_Witness ==
    /\ pc = "done"
    /\ exit_code = 0
    /\ Len(store.research_subtasks) = 2
    /\ Len(store.tasks) = 2
    /\ Len(started) = 6
    /\ ended = 6

====
